---- MODULE Spec2Model ----
(***************************************************************************)
(* Model of the order CRM: the Flask handlers of app.py over the sheet     *)
(* repository of sheets.py.  The shared state is the "Orders" sheet, a     *)
(* grid of NCols columns (A..T).  The status literals of the source are    *)
(* Russian; they are written here with the English names spec.md uses:     *)
(*   "оформлен" = "placed", "ожидает поставки" = "awaiting supply",        *)
(*   "сборка" = "assembly", "доставка" = "delivery",                       *)
(*   "завершён" = "completed".                                             *)
(***************************************************************************)
EXTENDS Integers, Sequences, FiniteSets, TLC

VARIABLES
    sheet,  \* the Orders grid: a sequence of rows, each a sequence of NCols cells
    now,    \* the wall clock, in seconds (time.time())
    prev,   \* the grid as it was when the last operation started
    last,   \* the last operation: its name, arguments, response and result
    procs   \* the requests served concurrently, by worker: position and local variables

vars == <<sheet, now, prev, last, procs>>

(***************************************************************************)
(* Bounds of the model.                                                    *)
(***************************************************************************)
MaxRows == 3        \* rows the web handlers may fill
MaxClock == 2       \* clock seconds
MaxIdx == 2         \* highest item index a generated form may carry
MaxTabRows == 3     \* rows of an arbitrary pre-existing table
NWorkers == 2       \* requests served concurrently

(***************************************************************************)
(* Python values.                                                          *)
(***************************************************************************)
\* Python's None: what dict.get / request.form.get give for a missing key.
None == "<None>"

\* Python truthiness of an Optional[str]: `not v`.
Falsy(v) == v = None \/ v = ""

\* d.get(k, default) on a dict modelled as a function over its keys.
DictGet(d, k, default) == IF k \in DOMAIN d THEN d[k] ELSE default

\* request.form.get(k)
FormGet(form, k) == DictGet(form, k, None)

PLACED == "placed"
AWAITING == "awaiting supply"
ASSEMBLY == "assembly"
DELIVERY == "delivery"
COMPLETED == "completed"

(***************************************************************************)
(* The sheet store (Google Sheets values API as sheets.py uses it).        *)
(* The grid keeps every row at full width, "" being an empty cell, and     *)
(* holds no trailing all-empty row.  values().get omits trailing empty     *)
(* cells of a row and trailing empty rows; values().update writes the      *)
(* cells it is given, leaving a cell alone where the value is null.        *)
(***************************************************************************)
NCols == 20

EmptyRow == [c \in 1..NCols |-> ""]

RECURSIVE TrimRow(_)
TrimRow(row) ==
    IF row = <<>> THEN <<>>
    ELSE IF row[Len(row)] = "" THEN TrimRow(SubSeq(row, 1, Len(row) - 1))
    ELSE row

RECURSIVE TrimRows(_)
TrimRows(rows) ==
    IF rows = <<>> THEN <<>>
    ELSE IF TrimRow(rows[Len(rows)]) = <<>> THEN TrimRows(SubSeq(rows, 1, Len(rows) - 1))
    ELSE rows

\* A ragged row at full width.
PadRow(row) == [c \in 1..NCols |-> IF c <= Len(row) THEN row[c] ELSE ""]

\* values().get(range="Orders!A:T").execute().get("values", [])
ValuesGetAT(sh) == [r \in 1..Len(TrimRows(sh)) |-> TrimRow(sh[r])]

\* values().get(range="Orders!A:A").execute().get("values", [])
ValuesGetA(sh) ==
    LET col == [r \in 1..Len(sh) |-> <<sh[r][1]>>]
    IN  [r \in 1..Len(TrimRows(col)) |-> TrimRow(col[r])]

\* values().update(range="Orders!A{start}:T{start+len(values)-1}", body={"values": values})
ValuesUpdate(sh, start, values) ==
    IF values = <<>> THEN sh
    ELSE
      LET stop == start + Len(values) - 1
          n == IF Len(sh) > stop THEN Len(sh) ELSE stop
          old(r) == IF r <= Len(sh) THEN sh[r] ELSE EmptyRow
          new(r) ==
              IF r < start \/ r > stop THEN old(r)
              ELSE LET v == values[r - start + 1]
                   IN  [c \in 1..NCols |->
                          IF c <= Len(v) /\ v[c] # None THEN v[c] ELSE old(r)[c]]
      IN  TrimRows([r \in 1..n |-> new(r)])

(***************************************************************************)
(* sheets.py                                                               *)
(***************************************************************************)
\* The row append_order builds for one item (the 20 columns, in order).
OrderRow(order_data, item, today) ==
    << DictGet(order_data, "id", ""),
       DictGet(order_data, "status", PLACED),
       DictGet(order_data, "date", today),
       DictGet(item, "sku", ""),
       DictGet(order_data, "channel", ""),
       DictGet(item, "supplier", ""),
       DictGet(item, "photo", ""),
       DictGet(item, "quantity", ""),
       DictGet(item, "order_sum", ""),
       DictGet(item, "purchase_sum", ""),
       DictGet(order_data, "percent", ""),
       DictGet(order_data, "extra_costs", ""),
       DictGet(order_data, "profit", ""),
       DictGet(order_data, "accruals", ""),
       DictGet(order_data, "customer_name", ""),
       DictGet(order_data, "phone", ""),
       DictGet(order_data, "messenger", ""),
       DictGet(order_data, "address", ""),
       DictGet(order_data, "logistics", ""),
       DictGet(item, "comment", "") >>

\* Mutant of NextRow: the length of column A itself (the last filled row).
NextRowOverwrite(sh) == Len(ValuesGetA(sh))

\* append_order's first free row: one past the length of column A.
NextRow(sh) == Len(ValuesGetA(sh)) + 1

\* append_order(order_data, items) without store failure: the grid afterwards.
append_order(sh, order_data, items, today) ==
    LET values == [i \in 1..Len(items) |-> OrderRow(order_data, items[i], today)]
    IN  ValuesUpdate(sh, NextRow(sh), values)

\* Mutant of StatusRow: a row read with fewer than two cells is not padded.
StatusRowNoPad(row, new_status) ==
    IF Len(row) < 2 THEN row ELSE [row EXCEPT ![2] = new_status]

\* update_status: the row it writes back for a matching row it read.
StatusRow(row, new_status) ==
    LET padded == IF Len(row) < 2 THEN row \o <<"">> ELSE row
    IN  [padded EXCEPT ![2] = new_status]

\* Mutant of StatusUpdates: only the first matching row is collected.
RECURSIVE StatusUpdatesFirstOnly(_, _, _, _)
StatusUpdatesFirstOnly(rows, idx, order_id, new_status) ==
    IF idx > Len(rows) THEN <<>>
    ELSE IF rows[idx] # <<>> /\ rows[idx][1] = order_id
         THEN <<  <<idx, StatusRow(rows[idx], new_status)>>  >>
         ELSE StatusUpdatesFirstOnly(rows, idx + 1, order_id, new_status)

\* update_status: the (idx, row) pairs it collects, in row order.
RECURSIVE StatusUpdates(_, _, _, _)
StatusUpdates(rows, idx, order_id, new_status) ==
    IF idx > Len(rows) THEN <<>>
    ELSE IF rows[idx] # <<>> /\ rows[idx][1] = order_id
         THEN <<  <<idx, StatusRow(rows[idx], new_status)>>  >>
              \o StatusUpdates(rows, idx + 1, order_id, new_status)
         ELSE StatusUpdates(rows, idx + 1, order_id, new_status)

\* update_status: one values().update per collected row, in order.
RECURSIVE ApplyUpdates(_, _)
ApplyUpdates(sh, updates) ==
    IF updates = <<>> THEN sh
    ELSE ApplyUpdates(ValuesUpdate(sh, updates[1][1], << updates[1][2] >>), Tail(updates))

\* update_status(order_id, new_status) without store failure: the grid afterwards.
update_status(sh, order_id, new_status) ==
    ApplyUpdates(sh, StatusUpdates(ValuesGetAT(sh), 1, order_id, new_status))

\* append_order when its call-th store call raises HttpError (1: the read of column
\* A, 2: the single range update): the grid afterwards.  Either way nothing is written.
append_order_failing(sh, order_data, items, today, call) == sh

\* update_status when its call-th store call raises HttpError (1: the read of A:T,
\* 1 + k: the update of the k-th collected row): the grid afterwards.  The updates
\* made before the failing one stay.
update_status_failing(sh, order_id, new_status, call) ==
    IF call = 1 THEN sh
    ELSE LET updates == StatusUpdates(ValuesGetAT(sh), 1, order_id, new_status)
         IN  ApplyUpdates(sh, SubSeq(updates, 1, call - 2))

\* row[i] if len(row) > i else ""   (i is the 0-based Python index)
CellOr(row, i) == IF Len(row) > i THEN row[i + 1] ELSE ""

\* Mutant of ItemOf: the quantity is taken from the photo column.
ItemOfPhotoAsQuantity(row) ==
    [sku |-> CellOr(row, 3), quantity |-> CellOr(row, 6), order_sum |-> CellOr(row, 8),
     purchase_sum |-> CellOr(row, 9), supplier |-> CellOr(row, 5)]

\* The item summary get_orders appends for a row.
ItemOf(row) ==
    [sku |-> CellOr(row, 3), quantity |-> CellOr(row, 7), order_sum |-> CellOr(row, 8),
     purchase_sum |-> CellOr(row, 9), supplier |-> CellOr(row, 5)]

\* Mutant of IndexOfId: only the record built last is looked at.
IndexOfIdLastOnly(orders, oid) ==
    IF orders # <<>> /\ orders[Len(orders)].id = oid THEN Len(orders) ELSE 0

\* Position of order id oid in the list of records built so far, 0 if absent.
IndexOfId(orders, oid) ==
    IF \E i \in 1..Len(orders) : orders[i].id = oid
    THEN CHOOSE i \in 1..Len(orders) : orders[i].id = oid
    ELSE 0

\* Mutant of AddRow: the status filter is not applied.
AddRowNoFilter(orders, row, status) ==
    IF row = <<>> \/ Len(row) < 2 THEN orders
    ELSE LET oid == row[1]
             at == IndexOfId(orders, oid)
             base == IF at = 0
                     THEN Append(orders,
                                 [id |-> oid, status |-> row[2], date |-> CellOr(row, 2),
                                  customer_name |-> CellOr(row, 14), items |-> <<>>])
                     ELSE orders
             pos == IF at = 0 THEN Len(base) ELSE at
         IN  [base EXCEPT ![pos].items = Append(@, ItemOf(row))]

\* One iteration of get_orders' loop over the rows read.
AddRow(orders, row, status) ==
    IF row = <<>> \/ Len(row) < 2 THEN orders
    ELSE LET oid == row[1]
             st == IF Len(row) > 1 THEN row[2] ELSE ""
         IN  IF ~Falsy(status) /\ st # status THEN orders
             ELSE LET at == IndexOfId(orders, oid)
                      base == IF at = 0
                              THEN Append(orders,
                                          [id |-> oid, status |-> st,
                                           date |-> CellOr(row, 2),
                                           customer_name |-> CellOr(row, 14),
                                           items |-> <<>>])
                              ELSE orders
                      pos == IF at = 0 THEN Len(base) ELSE at
                  IN  [base EXCEPT ![pos].items = Append(@, ItemOf(row))]

RECURSIVE FoldRows(_, _, _)
FoldRows(orders, rows, status) ==
    IF rows = <<>> THEN orders
    ELSE FoldRows(AddRow(orders, rows[1], status), Tail(rows), status)

\* get_orders(status) without store failure: list(orders.values()), in insertion order.
get_orders(sh, status) == FoldRows(<<>>, ValuesGetAT(sh), status)

(***************************************************************************)
(* app.py                                                                  *)
(***************************************************************************)
\* ROLE_MAP, with the four roles its comment lists (uid -> role).
ROLE_MAP ==
    [u \in {"379185153", "234567890", "345678901", "456789012"} |->
        CASE u = "379185153" -> "admin"
          [] u = "234567890" -> "manager"
          [] u = "345678901" -> "picker"
          [] u = "456789012" -> "courier"]

\* get_role(uid)
get_role(uid) == DictGet(ROLE_MAP, uid, None)

\* role = get_role(uid) if uid else None
RoleOf(uid) == IF Falsy(uid) THEN None ELSE get_role(uid)

\* The uid query parameter: absent, unknown, or one of ROLE_MAP's.
Uids == {None, "999"} \cup DOMAIN ROLE_MAP

\* str(int(time.time()))
TimeId(t) == ToString(t)

\* datetime.now().strftime("%Y-%m-%d %H:%M"): minute resolution
DateStr(t) == "1970-01-01 00:0" \o ToString(t \div 60)

\* f"item_{index}_" + field
ItemKey(index, field) == "item_" \o ToString(index) \o "_" \o field

\* new_order: the item dict read from the form at one index.
FormItem(form, index) ==
    [sku |-> FormGet(form, ItemKey(index, "sku")),
     supplier |-> FormGet(form, ItemKey(index, "supplier")),
     photo |-> FormGet(form, ItemKey(index, "photo")),
     quantity |-> FormGet(form, ItemKey(index, "quantity")),
     order_sum |-> FormGet(form, ItemKey(index, "order_sum")),
     purchase_sum |-> FormGet(form, ItemKey(index, "purchase_sum")),
     comment |-> FormGet(form, ItemKey(index, "comment"))]

\* Mutant of ParseItems: an index without SKU is skipped instead of ending the loop.
RECURSIVE ParseItemsSkipGaps(_, _)
ParseItemsSkipGaps(form, index) ==
    IF index > MaxIdx THEN <<>>
    ELSE IF Falsy(FormGet(form, ItemKey(index, "sku")))
         THEN ParseItemsSkipGaps(form, index + 1)
         ELSE <<FormItem(form, index)>> \o ParseItemsSkipGaps(form, index + 1)

\* new_order: the `while True` loop collecting items from index on.
RECURSIVE ParseItems(_, _)
ParseItems(form, index) ==
    IF Falsy(FormGet(form, ItemKey(index, "sku"))) THEN <<>>
    ELSE <<FormItem(form, index)>> \o ParseItems(form, index + 1)

\* Mutant of OrderData: the status field of the form is kept when there is one.
OrderDataKeepStatus(form, t) ==
    [id |-> IF Falsy(FormGet(form, "order_id")) THEN TimeId(t) ELSE FormGet(form, "order_id"),
     status |-> IF Falsy(FormGet(form, "status")) THEN PLACED ELSE FormGet(form, "status"),
     date |-> IF Falsy(FormGet(form, "date")) THEN DateStr(t) ELSE FormGet(form, "date"),
     channel |-> FormGet(form, "channel"),
     customer_name |-> FormGet(form, "customer_name"),
     phone |-> FormGet(form, "phone"),
     messenger |-> FormGet(form, "messenger"),
     address |-> FormGet(form, "address"),
     logistics |-> FormGet(form, "logistics"),
     percent |-> "",
     extra_costs |-> "",
     profit |-> "",
     accruals |-> ""]

\* new_order: order_data as passed to append_order at time t.
OrderData(form, t) ==
    [id |-> IF Falsy(FormGet(form, "order_id")) THEN TimeId(t) ELSE FormGet(form, "order_id"),
     status |-> PLACED,
     date |-> IF Falsy(FormGet(form, "date")) THEN DateStr(t) ELSE FormGet(form, "date"),
     channel |-> FormGet(form, "channel"),
     customer_name |-> FormGet(form, "customer_name"),
     phone |-> FormGet(form, "phone"),
     messenger |-> FormGet(form, "messenger"),
     address |-> FormGet(form, "address"),
     logistics |-> FormGet(form, "logistics"),
     percent |-> "",
     extra_costs |-> "",
     profit |-> "",
     accruals |-> ""]

\* Responses: abort(code), render_template(...), redirect(url_for(endpoint, status=...)).
Abort(code) == [code |-> code, endpoint |-> "", status |-> ""]
Rendered == [code |-> 200, endpoint |-> "", status |-> ""]
Redirect(endpoint, status) == [code |-> 302, endpoint |-> endpoint, status |-> status]

\* Mutant of Creators: the courier may create orders too.
CreatorsWithCourier == {"manager", "admin", "courier"}

\* Roles allowed to create an order.
Creators == {"manager", "admin"}

\* new_order(): the response and the grid afterwards.
new_order(sh, t, uid, method, form) ==
    IF RoleOf(uid) \notin Creators
    THEN [resp |-> Abort(403), sheet |-> sh, items |-> <<>>]
    ELSE IF method = "POST"
         THEN LET items == ParseItems(form, 0)
              IN  [resp |-> Redirect("index", ""),
                   sheet |-> append_order(sh, OrderData(form, t), items, DateStr(t)),
                   items |-> items]
         ELSE [resp |-> Rendered, sheet |-> sh, items |-> <<>>]

\* Mutant of orders: the listing is refused to a request without a role.
ordersRoleChecked(sh, uid, status) ==
    IF RoleOf(uid) = None
    THEN [resp |-> Abort(403), ret |-> <<>>]
    ELSE [resp |-> Rendered,
          ret |-> get_orders(sh, IF status # "all" THEN status ELSE None)]

\* orders(status): the response and the list handed to the template.
orders(sh, uid, status) ==
    [resp |-> Rendered,
     ret |-> get_orders(sh, IF status # "all" THEN status ELSE None)]

\* set_status: the `allowed` table of the non-admin roles.
Transitions ==
    [picker |-> (PLACED :> AWAITING) @@ (AWAITING :> ASSEMBLY),
     courier |-> (ASSEMBLY :> DELIVERY) @@ (DELIVERY :> COMPLETED)]

\* Mutant of Changers: the admin key is missing from `allowed`.
ChangersNoAdmin == {"picker", "courier"}

\* set_status: roles that are keys of `allowed`.
Changers == {"picker", "courier", "admin"}

\* Mutant of OrderInfo: the first record is taken whatever its id.
OrderInfoAnyId(sh, order_id) ==
    LET all == get_orders(sh, None)
    IN  IF all = <<>> THEN <<>> ELSE <<all[1]>>

\* next((o for o in sheets.get_orders() if o["id"] == order_id), None):
\* <<o>> for the first such record, <<>> for None.
OrderInfo(sh, order_id) ==
    LET all == get_orders(sh, None)
        at == IndexOfId(all, order_id)
    IN  IF at = 0 THEN <<>> ELSE <<all[at]>>

\* Mutant of TransitionDenied: the target is not compared with the table's value.
TransitionDeniedAnyTarget(role, cur_status, new_status) ==
    cur_status \notin DOMAIN Transitions[role]

\* cur_status not in transitions or transitions[cur_status] != new_status
TransitionDenied(role, cur_status, new_status) ==
    \/ cur_status \notin DOMAIN Transitions[role]
    \/ Transitions[role][cur_status] # new_status

\* set_status(order_id, new_status): the response and the grid afterwards.
set_status(sh, uid, order_id, new_status) ==
    LET role == RoleOf(uid)
        done == [resp |-> Redirect("orders", new_status),
                 sheet |-> update_status(sh, order_id, new_status)]
    IN  IF role \notin Changers THEN [resp |-> Abort(403), sheet |-> sh]
        ELSE IF role = "admin" THEN done
        ELSE LET order_info == OrderInfo(sh, order_id)
             IN  IF order_info = <<>> THEN [resp |-> Abort(404), sheet |-> sh]
                 ELSE IF TransitionDenied(role, order_info[1].status, new_status)
                      THEN [resp |-> Abort(403), sheet |-> sh]
                      ELSE done

(***************************************************************************)
(* Inputs.                                                                 *)
(***************************************************************************)
Statuses == {PLACED, AWAITING, ASSEMBLY, DELIVERY, COMPLETED}

\* Target statuses of /update_status/<order_id>/<new_status>: any non-empty string.
Targets == Statuses \cup {"archived"}

\* The form fields of one item at an index, by kind.
ItemFields(index, kind) ==
    CASE kind = "full" ->
           (ItemKey(index, "sku") :> ("sku" \o ToString(index)))
           @@ (ItemKey(index, "supplier") :> "Y1")
           @@ (ItemKey(index, "photo") :> "http://p")
           @@ (ItemKey(index, "quantity") :> ToString(index + 1))
           @@ (ItemKey(index, "order_sum") :> "100")
           @@ (ItemKey(index, "purchase_sum") :> "70")
           @@ (ItemKey(index, "comment") :> "note")
      [] kind = "sparse" ->
           (ItemKey(index, "sku") :> ("art" \o ToString(index)))
           @@ (ItemKey(index, "quantity") :> "1")
      [] kind = "blank" ->
           (ItemKey(index, "sku") :> "") @@ (ItemKey(index, "quantity") :> "5")
      [] OTHER -> (ItemKey(index, "quantity") :> "9")

ItemKinds == {"full", "sparse", "blank", "nosku"}

OrderFull(id) ==
    [order_id |-> id, status |-> COMPLETED, date |-> "2024-01-01 10:00", channel |-> "WKO",
     customer_name |-> "Ann", phone |-> "+7", messenger |-> "tg", address |-> "addr",
     logistics |-> "JDE"]

\* The forms posted to /new_order.
WebForms ==
    { [order_id |-> "A", customer_name |-> "Bob"]
          @@ ItemFields(0, "sparse") @@ ItemFields(2, "full"),
      [order_id |-> "A", phone |-> "+7"] @@ ItemFields(0, "full"),
      OrderFull("B") @@ ItemFields(0, "full") @@ ItemFields(1, "sparse"),
      [channel |-> "WKO", status |-> ASSEMBLY] @@ ItemFields(0, "full"),
      OrderFull("Z") }

\* Order ids asked of /update_status.
OrderIds == {"A", "B", "Z"}

\* Status segments asked of /orders/<status>.
Listings == {"all", PLACED, DELIVERY}

\* An empty form: what request.form is on a GET.
NoForm == [k \in {} |-> ""]

NoOp ==
    [op |-> "", uid |-> None, method |-> "", form |-> NoForm, order_id |-> "",
     new_status |-> "", status |-> "", resp |-> Abort(0), ret |-> <<>>, items |-> <<>>,
     failed_call |-> 0]

(***************************************************************************)
(* Spec: requests served one at a time, no store failure.                  *)
(***************************************************************************)
Init ==
    /\ sheet = <<>>
    /\ now = 1
    /\ procs = <<>>
    /\ prev = <<>>
    /\ last = NoOp

\* No request is being served: the last response has been sent.
Idle == last.op = ""

\* The response of the last request is sent; the server waits for the next one.
Return ==
    /\ ~Idle
    /\ last' = NoOp
    /\ prev' = <<>>
    /\ UNCHANGED <<sheet, now, procs>>

\* A second passes.
Tick ==
    /\ Idle
    /\ now < MaxClock
    /\ now' = now + 1
    /\ UNCHANGED <<sheet, prev, last, procs>>

\* GET|POST /new_order
NewOrder ==
    \E uid \in Uids, method \in {"GET", "POST"} :
      \E form \in IF method = "POST" THEN WebForms ELSE {NoForm} :
        LET r == new_order(sheet, now, uid, method, form)
        IN  /\ Idle
            /\ Len(r.sheet) <= MaxRows
            /\ sheet' = r.sheet
            /\ prev' = sheet
            /\ last' = [NoOp EXCEPT !.op = "new_order", !.uid = uid, !.method = method,
                                    !.form = form, !.resp = r.resp, !.items = r.items]
            /\ UNCHANGED <<now, procs>>

\* GET /orders/<status>
Orders ==
    \E uid \in Uids, status \in Listings :
        LET r == orders(sheet, uid, status)
        IN  /\ Idle
            /\ prev' = sheet
            /\ last' = [NoOp EXCEPT !.op = "orders", !.uid = uid, !.status = status,
                                    !.resp = r.resp, !.ret = r.ret]
            /\ UNCHANGED <<sheet, now, procs>>

\* GET /update_status/<order_id>/<new_status>
SetStatus ==
    \E uid \in Uids, order_id \in OrderIds, new_status \in Targets :
        LET r == set_status(sheet, uid, order_id, new_status)
        IN  /\ Idle
            /\ sheet' = r.sheet
            /\ prev' = sheet
            /\ last' = [NoOp EXCEPT !.op = "set_status", !.uid = uid,
                                    !.order_id = order_id, !.new_status = new_status,
                                    !.resp = r.resp]
            /\ UNCHANGED <<now, procs>>

Next == Tick \/ NewOrder \/ Orders \/ SetStatus \/ Return

Spec == Init /\ [][Next]_vars

(***************************************************************************)
(* SpecSheets: update_status and get_orders called on a sheet of any       *)
(* contents (ragged rows, empty rows, rows of one order that disagree),    *)
(* as the sheet may hold after edits made outside the application.         *)
(***************************************************************************)
\* Rows as values().get returns them.
RowSeeds ==
    { <<>>,
      <<"A">>,
      <<"A", PLACED>>,
      <<"A", ASSEMBLY, "2024-01-01 10:00", "s1">>,
      <<"B", PLACED, "2024-01-02 10:00", "s2">>,
      <<"", PLACED>>,
      OrderRow([id |-> "A", status |-> DELIVERY, customer_name |-> "Ann", logistics |-> "JDE"],
               [sku |-> "s3", quantity |-> "2", comment |-> "note"], "2024-01-03 10:00") }

ArbTables ==
    { [r \in DOMAIN t |-> PadRow(t[r])] :
        t \in { u \in UNION { [1..n -> RowSeeds] : n \in 0..MaxTabRows } : TrimRows(u) = u } }

InitSheets ==
    /\ sheet \in ArbTables
    /\ now = 1
    /\ procs = <<>>
    /\ prev = <<>>
    /\ last = NoOp

\* sheets.update_status(order_id, new_status), called as set_status calls it.
UpdateStatusCall ==
    \E order_id \in OrderIds, new_status \in {PLACED, ASSEMBLY, "archived"} :
        /\ Idle
        /\ sheet' = update_status(sheet, order_id, new_status)
        /\ prev' = sheet
        /\ last' = [NoOp EXCEPT !.op = "update_status", !.order_id = order_id,
                                !.new_status = new_status]
        /\ UNCHANGED <<now, procs>>

\* sheets.get_orders(status), called as orders calls it.
GetOrdersCall ==
    \E status \in {None, PLACED, ASSEMBLY, DELIVERY} :
        /\ Idle
        /\ prev' = sheet
        /\ last' = [NoOp EXCEPT !.op = "get_orders", !.status = status,
                                !.ret = get_orders(sheet, status)]
        /\ UNCHANGED <<sheet, now, procs>>

NextSheets == UpdateStatusCall \/ GetOrdersCall \/ Return

SpecSheets == InitSheets /\ [][NextSheets]_vars

(***************************************************************************)
(* SpecParse: one order form, of any shape, posted to /new_order by the    *)
(* admin on an empty sheet.                                                *)
(***************************************************************************)
RECURSIVE MergeItems(_, _)
MergeItems(kinds, index) ==
    IF index > MaxIdx THEN NoForm
    ELSE ItemFields(index, kinds[index]) @@ MergeItems(kinds, index + 1)

\* Forms carrying, at each index 0..MaxIdx, an item of some kind.
GenForms ==
    { [order_id |-> "A"] @@ MergeItems(kinds, 0) : kinds \in [0..MaxIdx -> ItemKinds] }

InitParse ==
    /\ sheet = <<>>
    /\ now = 1
    /\ procs = <<>>
    /\ prev = <<>>
    /\ last \in { [NoOp EXCEPT !.op = "form", !.form = f] : f \in GenForms }

\* POST /new_order with the form drawn.
SubmitForm ==
    /\ last.op = "form"
    /\ LET r == new_order(sheet, now, "379185153", "POST", last.form)
       IN  /\ sheet' = r.sheet
           /\ prev' = sheet
           /\ last' = [last EXCEPT !.op = "new_order", !.uid = "379185153",
                                   !.method = "POST", !.resp = r.resp, !.items = r.items]
    /\ UNCHANGED <<now, procs>>

NextParse == SubmitForm

SpecParse == InitParse /\ [][NextParse]_vars

(***************************************************************************)
(* SpecFail: the requests of Spec, and calls of append_order and           *)
(* update_status during which one store call raises HttpError.             *)
(***************************************************************************)
\* sheets.append_order(order_data, items), as new_order calls it; store call `call` fails.
AppendOrderFails ==
    \E form \in WebForms, call \in 1..2 :
        /\ Idle
        /\ sheet' = append_order_failing(sheet, OrderData(form, now), ParseItems(form, 0),
                                         DateStr(now), call)
        /\ prev' = sheet
        /\ last' = [NoOp EXCEPT !.op = "append_order", !.form = form,
                                !.items = ParseItems(form, 0), !.failed_call = call]
        /\ UNCHANGED <<now, procs>>

\* sheets.update_status(order_id, new_status); store call `call` fails.
UpdateStatusFails ==
    \E order_id \in OrderIds, new_status \in {ASSEMBLY, DELIVERY}, call \in 1..(MaxRows + 1) :
        /\ Idle
        /\ call <= 1 + Len(StatusUpdates(ValuesGetAT(sheet), 1, order_id, new_status))
        /\ sheet' = update_status_failing(sheet, order_id, new_status, call)
        /\ prev' = sheet
        /\ last' = [NoOp EXCEPT !.op = "update_status", !.order_id = order_id,
                                !.new_status = new_status, !.failed_call = call]
        /\ UNCHANGED <<now, procs>>

NextFail == NewOrder \/ SetStatus \/ AppendOrderFails \/ UpdateStatusFails \/ Return

SpecFail == Init /\ [][NextFail]_vars

(***************************************************************************)
(* Requests served concurrently.  Each worker serves one request at a      *)
(* time; a step of a worker is one call of the store (a values().get or a  *)
(* values().update), together with the local computation that follows it.  *)
(* The store serves the calls one at a time, in any order across workers.  *)
(* In these specifications prev is the grid before the last step.          *)
(***************************************************************************)
Workers == 1..NWorkers

\* A worker between requests.
Waiting ==
    [pc |-> "idle", op |-> "", uid |-> None, order_id |-> "", new_status |-> "",
     updates |-> <<>>, values |-> <<>>, next_row |-> 0, resp |-> Abort(0)]

\* The uids of ROLE_MAP that have one of the roles.
UidsOf(roles) == { u \in DOMAIN ROLE_MAP : ROLE_MAP[u] \in roles }

\* The sheet the concurrent requests start on: order B, stored by one earlier
\* submission as two rows.
SeedSheet ==
    new_order(<<>>, 1, "234567890", "POST",
              OrderFull("B") @@ ItemFields(0, "full") @@ ItemFields(1, "sparse")).sheet

\* The one-item forms posted concurrently: one with an identifier, one without.
RaceForms ==
    { [order_id |-> "A", phone |-> "+7"] @@ ItemFields(0, "full"),
      [channel |-> "WKO", status |-> ASSEMBLY] @@ ItemFields(0, "full") }

InitRace ==
    /\ sheet = SeedSheet
    /\ now = 1
    /\ prev = SeedSheet
    /\ last = NoOp
    /\ procs = [w \in Workers |-> Waiting]

\* set_status up to its first store call: the role is looked up and checked against
\* `allowed`; the admin goes straight to update_status.
BeginSetStatus(w, uids) ==
    \E uid \in uids, order_id \in {"A", "B"}, new_status \in Statuses :
        /\ procs[w].pc = "idle"
        /\ procs' = [procs EXCEPT ![w] =
               [Waiting EXCEPT !.op = "set_status", !.uid = uid, !.order_id = order_id,
                               !.new_status = new_status,
                               !.pc = IF RoleOf(uid) \notin Changers THEN "done"
                                      ELSE IF RoleOf(uid) = "admin" THEN "read" ELSE "check",
                               !.resp = IF RoleOf(uid) \notin Changers
                                        THEN Abort(403) ELSE Abort(0)]]
        /\ prev' = sheet
        /\ UNCHANGED <<sheet, now, last>>

\* set_status of a picker or courier: sheets.get_orders() and the checks on its result.
CheckOrder(w) ==
    LET p == procs[w]
        order_info == OrderInfo(sheet, p.order_id)
        denied == IF order_info = <<>> THEN 404
                  ELSE IF TransitionDenied(RoleOf(p.uid), order_info[1].status, p.new_status)
                       THEN 403 ELSE 0
    IN  /\ p.pc = "check"
        /\ procs' = [procs EXCEPT ![w] =
               IF denied # 0 THEN [p EXCEPT !.pc = "done", !.resp = Abort(denied)]
               ELSE [p EXCEPT !.pc = "read"]]
        /\ prev' = sheet
        /\ UNCHANGED <<sheet, now, last>>

\* update_status: the read of A:T and the collection of `updates`.
ReadTable(w) ==
    LET p == procs[w]
        updates == StatusUpdates(ValuesGetAT(sheet), 1, p.order_id, p.new_status)
    IN  /\ p.pc = "read"
        /\ procs' = [procs EXCEPT ![w] =
               IF updates = <<>>
               THEN [p EXCEPT !.pc = "done", !.resp = Redirect("orders", p.new_status)]
               ELSE [p EXCEPT !.pc = "write", !.updates = updates]]
        /\ prev' = sheet
        /\ UNCHANGED <<sheet, now, last>>

\* update_status: one iteration of `for idx, row in updates`, a values().update of one row.
WriteRow(w) ==
    LET p == procs[w]
    IN  /\ p.pc = "write"
        /\ sheet' = ValuesUpdate(sheet, p.updates[1][1], << p.updates[1][2] >>)
        /\ procs' = [procs EXCEPT ![w] =
               IF Tail(p.updates) = <<>>
               THEN [p EXCEPT !.pc = "done", !.updates = <<>>,
                              !.resp = Redirect("orders", p.new_status)]
               ELSE [p EXCEPT !.updates = Tail(p.updates)]]
        /\ prev' = sheet
        /\ UNCHANGED <<now, last>>

\* POST /new_order by a manager or admin up to its first store call: the form is
\* parsed and append_order has built `values`.
BeginNewOrder(w) ==
    \E uid \in UidsOf(Creators), form \in RaceForms :
        LET order_data == OrderData(form, now)
            items == ParseItems(form, 0)
        IN  /\ procs[w].pc = "idle"
            /\ Len(sheet) < MaxRows
            /\ procs' = [procs EXCEPT ![w] =
                   [Waiting EXCEPT !.op = "new_order", !.uid = uid, !.pc = "count",
                                   !.order_id = order_data.id,
                                   !.values = [i \in 1..Len(items) |->
                                                OrderRow(order_data, items[i], DateStr(now))]]]
            /\ prev' = sheet
            /\ UNCHANGED <<sheet, now, last>>

\* append_order: the read of column A and next_row = len(existing) + 1.
CountRows(w) ==
    /\ procs[w].pc = "count"
    /\ procs' = [procs EXCEPT ![w].pc = "append", ![w].next_row = NextRow(sheet)]
    /\ prev' = sheet
    /\ UNCHANGED <<sheet, now, last>>

\* append_order: the values().update of the range starting at next_row.
AppendRows(w) ==
    LET p == procs[w]
    IN  /\ p.pc = "append"
        /\ sheet' = ValuesUpdate(sheet, p.next_row, p.values)
        /\ procs' = [procs EXCEPT ![w].pc = "done", ![w].resp = Redirect("index", "")]
        /\ prev' = sheet
        /\ UNCHANGED <<now, last>>

\* The response is sent and the worker takes the next request.
Finish(w) ==
    /\ procs[w].pc = "done"
    /\ procs' = [procs EXCEPT ![w] = Waiting]
    /\ prev' = sheet
    /\ UNCHANGED <<sheet, now, last>>

(***************************************************************************)
(* SpecRace: every worker serves one request, a status change by the admin *)
(* or the picker or an order submission, concurrently with the others'.    *)
(***************************************************************************)
NextRace ==
    \E w \in Workers :
        \/ BeginSetStatus(w, UidsOf({"admin", "picker"}))
        \/ CheckOrder(w)
        \/ ReadTable(w)
        \/ WriteRow(w)
        \/ BeginNewOrder(w)
        \/ CountRows(w)
        \/ AppendRows(w)

SpecRace == InitRace /\ [][NextRace]_vars

(***************************************************************************)
(* SpecChain: the workers serve status changes requested by the picker and *)
(* the courier only, one request after another, concurrently.              *)
(***************************************************************************)
NextChain ==
    \E w \in Workers :
        \/ BeginSetStatus(w, UidsOf({"picker", "courier"}))
        \/ CheckOrder(w)
        \/ ReadTable(w)
        \/ WriteRow(w)
        \/ Finish(w)

SpecChain == InitRace /\ [][NextChain]_vars

(***************************************************************************)
(* Vocabulary of the properties, stated on the grid itself.                *)
(***************************************************************************)
\* Column positions of the fixed layout (1-based).
ColId == 1
ColStatus == 2

\* The rows of the grid whose identifier cell is oid.
RowsOf(sh, oid) == { r \in 1..Len(sh) : sh[r][ColId] = oid }

\* The status cell of the lowest-index row of oid.
FirstStatus(sh, oid) ==
    LET first == CHOOSE r \in RowsOf(sh, oid) : \A q \in RowsOf(sh, oid) : r <= q
    IN  sh[first][ColStatus]

\* The transition table of spec.md 4.3, as (role, current, target) triples.
LegalTriples ==
    { <<"picker", PLACED, AWAITING>>, <<"picker", AWAITING, ASSEMBLY>>,
      <<"courier", ASSEMBLY, DELIVERY>>, <<"courier", DELIVERY, COMPLETED>> }

\* Every row of oid carries status st, and the grid has as many rows as before.
AllRowsCarry(before, after, oid, st) ==
    /\ Len(after) = Len(before)
    /\ \A r \in RowsOf(before, oid) : after[r][ColId] = oid /\ after[r][ColStatus] = st

(***************************************************************************)
(* C1.  In every state between requests, all rows that share an order      *)
(* identifier carry the same status.                                       *)
(***************************************************************************)
C1_SameIdSameStatus ==
    \A i, j \in 1..Len(sheet) :
        sheet[i][ColId] = sheet[j][ColId] => sheet[i][ColStatus] = sheet[j][ColStatus]

(***************************************************************************)
(* C2.  A status change asked by a non-admin identity for an existing      *)
(* order, whose (role, current status, target) is no entry of the          *)
(* transition table, is answered 403 and leaves the grid as it was.  The   *)
(* current status is the one of the order's first row.                     *)
(***************************************************************************)
C2_IllegalTransitionForbidden ==
    ( /\ last.op = "set_status"
      /\ RoleOf(last.uid) # "admin"
      /\ RowsOf(prev, last.order_id) # {}
      /\ <<RoleOf(last.uid), FirstStatus(prev, last.order_id), last.new_status>>
            \notin LegalTriples )
    => (last.resp = Abort(403) /\ sheet = prev)

\* The picker asks placed -> assembly directly, and a role-less identity asks a table entry.
C2_Witness ==
    /\ last.op = "set_status"
    /\ RoleOf(last.uid) = "picker"
    /\ RowsOf(prev, last.order_id) # {}
    /\ FirstStatus(prev, last.order_id) = PLACED
    /\ last.new_status = ASSEMBLY
    /\ last.resp.code = 403

(***************************************************************************)
(* C3.  A picker or courier asking the table's target for the order's      *)
(* current status succeeds: every row of the order carries the target      *)
(* and the response redirects to the listing of the target status.         *)
(***************************************************************************)
C3_LegalTransitionSucceeds ==
    ( /\ last.op = "set_status"
      /\ RowsOf(prev, last.order_id) # {}
      /\ <<RoleOf(last.uid), FirstStatus(prev, last.order_id), last.new_status>>
            \in LegalTriples )
    => ( /\ last.resp = Redirect("orders", last.new_status)
         /\ AllRowsCarry(prev, sheet, last.order_id, last.new_status) )

\* The picker moves a two-row order from placed to awaiting supply.
C3_Witness ==
    /\ last.op = "set_status"
    /\ RoleOf(last.uid) = "picker"
    /\ Cardinality(RowsOf(prev, last.order_id)) = 2
    /\ FirstStatus(prev, last.order_id) = PLACED
    /\ last.new_status = AWAITING
    /\ last.resp = Redirect("orders", AWAITING)
    /\ \A r \in RowsOf(sheet, last.order_id) : sheet[r][ColStatus] = AWAITING

(***************************************************************************)
(* C4.  The admin changing an existing order to any target is never        *)
(* answered 403 or 404, and afterwards every row of the order carries the  *)
(* target.                                                                 *)
(***************************************************************************)
C4_AdminAnyTarget ==
    ( /\ last.op = "set_status"
      /\ RoleOf(last.uid) = "admin"
      /\ RowsOf(prev, last.order_id) # {} )
    => ( /\ last.resp = Redirect("orders", last.new_status)
         /\ AllRowsCarry(prev, sheet, last.order_id, last.new_status) )

\* The admin moves a completed two-row order to a status outside the chain.
C4_Witness ==
    /\ last.op = "set_status"
    /\ RoleOf(last.uid) = "admin"
    /\ Cardinality(RowsOf(prev, last.order_id)) = 2
    /\ FirstStatus(prev, last.order_id) = COMPLETED
    /\ last.new_status = "archived"
    /\ last.resp.code = 302
    /\ \A r \in RowsOf(sheet, last.order_id) : sheet[r][ColStatus] = "archived"

(***************************************************************************)
(* C5.  /new_order asked by an identity that is neither manager nor admin  *)
(* is answered 403 and writes no row.                                      *)
(***************************************************************************)
C5_CreateForbidden ==
    (last.op = "new_order" /\ RoleOf(last.uid) \notin {"manager", "admin"})
    => (last.resp = Abort(403) /\ sheet = prev)

\* A courier posts a form that carries items.
C5_Witness ==
    /\ last.op = "new_order"
    /\ RoleOf(last.uid) = "courier"
    /\ last.method = "POST"
    /\ ParseItems(last.form, 0) # <<>>
    /\ last.resp.code = 403
    /\ sheet = prev

(***************************************************************************)
(* C6.  update_status(order_id, new_status) sets the status cell of every  *)
(* row whose identifier is order_id, rows of fewer than two cells          *)
(* included, and changes no other cell of the sheet.                       *)
(***************************************************************************)
C6_UpdateStatusFrame ==
    last.op = "update_status" =>
        /\ Len(sheet) = Len(prev)
        /\ \A r \in 1..Len(prev) :
              IF prev[r][ColId] = last.order_id
              THEN /\ sheet[r][ColStatus] = last.new_status
                   /\ \A c \in (1..NCols) \ {ColStatus} : sheet[r][c] = prev[r][c]
              ELSE sheet[r] = prev[r]

\* The order has a one-cell row and a full-width row, beside a row of another order.
C6_Witness ==
    /\ last.op = "update_status"
    /\ \E r, q, o \in 1..Len(prev) :
          /\ prev[r] = PadRow(<<last.order_id>>)
          /\ sheet[r] = PadRow(<<last.order_id, last.new_status>>)
          /\ prev[q][ColId] = last.order_id
          /\ prev[q][NCols] # ""
          /\ prev[q][ColStatus] # last.new_status
          /\ prev[o][ColId] \notin {last.order_id, ""}

(***************************************************************************)
(* C7.  append_order with N items adds exactly N rows right after the      *)
(* last existing row; the new rows agree on every order-level column and   *)
(* the i-th holds the fields of the i-th item; earlier rows are unchanged. *)
(***************************************************************************)
\* Order-level columns: id, status, date, channel, percent .. logistics.
OrderCols == {1, 2, 3, 5} \cup (11..19)

\* Item columns and the item field each holds.
ItemCols ==
    { <<4, "sku">>, <<6, "supplier">>, <<7, "photo">>, <<8, "quantity">>,
      <<9, "order_sum">>, <<10, "purchase_sum">>, <<20, "comment">> }

\* The cell a written value shows as: a null leaves the fresh cell empty.
Shown(v) == IF v = None THEN "" ELSE v

C7_AppendRows ==
    (last.op = "new_order" /\ last.resp.code = 302) =>
        LET n == Len(last.items)
            base == Len(prev)
        IN  /\ Len(sheet) = base + n
            /\ \A r \in 1..base : sheet[r] = prev[r]
            /\ \A i \in 1..n :
                  /\ \A c \in OrderCols : sheet[base + i][c] = sheet[base + 1][c]
                  /\ \A p \in ItemCols : sheet[base + i][p[1]] = Shown(last.items[i][p[2]])

\* Two items appended below an existing row.
C7_Witness ==
    /\ last.op = "new_order"
    /\ last.resp.code = 302
    /\ Len(last.items) = 2
    /\ Len(prev) >= 1
    /\ Len(sheet) = Len(prev) + 2
    /\ sheet[Len(prev) + 1][4] # sheet[Len(prev) + 2][4]
    /\ sheet[Len(prev) + 1][ColId] = sheet[Len(prev) + 2][ColId]

(***************************************************************************)
(* C8.  get_orders(s).                                                     *)
(***************************************************************************)
\* The rows get_orders does not skip: those read with at least two cells.
Seen(sh) == { r \in 1..Len(sh) : Len(TrimRow(sh[r])) >= 2 }

\* The lowest-index seen row of oid.
FirstSeen(sh, oid) ==
    CHOOSE r \in Seen(sh) \cap RowsOf(sh, oid) :
        \A q \in Seen(sh) \cap RowsOf(sh, oid) : r <= q

RetIds == { last.ret[i].id : i \in 1..Len(last.ret) }

\* C8 as claimed: get_orders(s) returns exactly the orders whose first-seen row has
\* status s.
C8_FirstSeenFilter ==
    (last.op = "get_orders" /\ last.status # None) =>
        RetIds = { prev[r][ColId] : r \in { q \in Seen(prev) :
                       prev[FirstSeen(prev, prev[q][ColId])][ColStatus] = last.status } }

\* C8 amended: get_orders(s), s non-empty, returns one record for each order that
\* has some row of status s, with status s and one item per row of status s.
C8_AnyRowFilter ==
    (last.op = "get_orders" /\ last.status # None) =>
        LET match == { r \in Seen(prev) : prev[r][ColStatus] = last.status }
        IN  /\ RetIds = { prev[r][ColId] : r \in match }
            /\ \A i, j \in 1..Len(last.ret) : last.ret[i].id = last.ret[j].id => i = j
            /\ \A i \in 1..Len(last.ret) :
                  /\ last.ret[i].status = last.status
                  /\ Len(last.ret[i].items)
                       = Cardinality({ r \in match : prev[r][ColId] = last.ret[i].id })

\* An order whose first row has another status and whose later row has status s
\* is returned.
C8_Witness ==
    /\ last.op = "get_orders"
    /\ last.status # None
    /\ \E r \in Seen(prev) :
          /\ prev[r][ColStatus] = last.status
          /\ prev[FirstSeen(prev, prev[r][ColId])][ColStatus] # last.status
          /\ prev[r][ColId] \in RetIds

(***************************************************************************)
(* C9.  The unfiltered listing returns one record per distinct identifier  *)
(* in the sheet, contiguous or not, with one item per row of the           *)
(* identifier, in row order.                                               *)
(***************************************************************************)
\* The k-th lowest of a set of row numbers.
KthRow(rows, k) == CHOOSE r \in rows : Cardinality({ q \in rows : q < r }) = k - 1

C9_OneRecordPerId ==
    (last.op = "orders" /\ last.status = "all") =>
        /\ RetIds = { prev[r][ColId] : r \in 1..Len(prev) }
        /\ \A i, j \in 1..Len(last.ret) : last.ret[i].id = last.ret[j].id => i = j
        /\ \A i \in 1..Len(last.ret) :
              LET rows == RowsOf(prev, last.ret[i].id)
                  items == last.ret[i].items
              IN  /\ Len(items) = Cardinality(rows)
                  /\ \A k \in 1..Len(items) :
                        LET row == prev[KthRow(rows, k)]
                        IN  /\ items[k].sku = row[4]
                            /\ items[k].supplier = row[6]
                            /\ items[k].quantity = row[8]
                            /\ items[k].order_sum = row[9]
                            /\ items[k].purchase_sum = row[10]

\* The rows of one identifier lie on both sides of a row of another.
C9_Witness ==
    /\ last.op = "orders"
    /\ last.status = "all"
    /\ Len(last.ret) = 2
    /\ \E i, j, k \in 1..Len(prev) :
          /\ i < j /\ j < k
          /\ prev[i][ColId] = prev[k][ColId]
          /\ prev[i][ColId] # prev[j][ColId]
          /\ prev[i][4] # prev[k][4]

(***************************************************************************)
(* C10.  The items captured from a form are those at indices 0..k-1, in    *)
(* order, k being the lowest index whose item_k_sku is absent or empty.    *)
(***************************************************************************)
SkuMissing(form, k) ==
    LET key == "item_" \o ToString(k) \o "_sku"
    IN  key \notin DOMAIN form \/ form[key] = ""

FirstGap(form) ==
    CHOOSE k \in 0..(MaxIdx + 1) :
        SkuMissing(form, k) /\ \A j \in 0..(k - 1) : ~SkuMissing(form, j)

C10_ItemsUpToFirstGap ==
    last.op = "new_order" =>
        /\ Len(last.items) = FirstGap(last.form)
        /\ \A i \in 1..Len(last.items) :
              last.items[i].sku = last.form["item_" \o ToString(i - 1) \o "_sku"]
        /\ Len(sheet) = FirstGap(last.form)

\* item_0 and item_2 carry a SKU, item_1 does not: item_0 alone is captured.
C10_Witness ==
    /\ last.op = "new_order"
    /\ ~SkuMissing(last.form, 0)
    /\ SkuMissing(last.form, 1)
    /\ ~SkuMissing(last.form, 2)
    /\ Len(last.items) = 1
    /\ last.items[1].sku = last.form["item_0_sku"]

(***************************************************************************)
(* C11.  Every row written by an order creation through /new_order carries *)
(* the status "placed", whatever the status field of the submitted form.   *)
(***************************************************************************)
\* The rows the last operation added below the rows it found.
NewRows == (Len(prev) + 1)..Len(sheet)

C11_CreatedRowsPlaced ==
    (last.op = "new_order" /\ last.resp.code = 302) =>
        \A r \in NewRows : sheet[r][ColStatus] = PLACED

\* Two rows written from a form whose status field says "completed".
C11_Witness ==
    /\ last.op = "new_order"
    /\ last.resp.code = 302
    /\ FormGet(last.form, "status") = COMPLETED
    /\ Cardinality(NewRows) = 2
    /\ \A r \in NewRows : sheet[r][ColStatus] = PLACED

(***************************************************************************)
(* C12.  Order identifiers are unique: the rows of an accepted submission  *)
(* are stored under an identifier no earlier submission's rows carry, be   *)
(* the identifiers supplied by the caller or derived from the clock.       *)
(***************************************************************************)
C12_FreshIdentifier ==
    (last.op = "new_order" /\ last.resp.code = 302) =>
        \A r \in NewRows : RowsOf(prev, sheet[r][ColId]) = {}

\* The case of the default: two forms without order_id submitted in the same second.
C12_FreshDefaultIdentifier ==
    (last.op = "new_order" /\ last.resp.code = 302
        /\ Falsy(FormGet(last.form, "order_id"))) =>
        \A r \in NewRows : RowsOf(prev, sheet[r][ColId]) = {}

(***************************************************************************)
(* C13.  A picker's or courier's status change for an order id that no row *)
(* carries is answered 404, whatever the target, and leaves the sheet as   *)
(* it was.                                                                 *)
(***************************************************************************)
C13_UnknownOrderNotFound ==
    (last.op = "set_status" /\ RoleOf(last.uid) \in {"picker", "courier"}
        /\ RowsOf(prev, last.order_id) = {}) =>
        /\ last.resp = Abort(404)
        /\ sheet = prev

\* The picker asks the first step of the chain for an id absent from a sheet that
\* holds another order in status "placed".
C13_Witness ==
    /\ last.op = "set_status"
    /\ RoleOf(last.uid) = "picker"
    /\ last.new_status = AWAITING
    /\ RowsOf(prev, last.order_id) = {}
    /\ Len(prev) >= 1
    /\ prev[1][ColStatus] = PLACED
    /\ last.resp = Abort(404)

(***************************************************************************)
(* C14.  /orders/<status>, "all" included, is rendered for every identity, *)
(* also one with no role or no uid: it is never answered 403 and never     *)
(* modifies the sheet.                                                     *)
(***************************************************************************)
C14_ListingOpen ==
    (last.op = "orders") =>
        /\ last.resp = Rendered
        /\ sheet = prev

\* A request without uid lists all the orders of a sheet that has some.
C14_Witness ==
    /\ last.op = "orders"
    /\ last.uid = None
    /\ last.status = "all"
    /\ last.ret # <<>>
    /\ last.resp = Rendered

(***************************************************************************)
(* C19.  get_orders, with or without filter, skips every row that has no   *)
(* identifier (an empty row, or a row whose identifier cell is empty) or   *)
(* no second column: no record and no item is built from such a row.       *)
(***************************************************************************)
\* Rows without identifier or without second column, as read from sh.
Skipped(sh) == { r \in 1..Len(sh) : sh[r][ColId] = "" \/ Len(TrimRow(sh[r])) < 2 }

\* The rows of sh a call with this filter may build from.
Eligible(sh, status) ==
    { r \in (1..Len(sh)) \ Skipped(sh) : status = None \/ sh[r][ColStatus] = status }

C19_SkipsRowsWithoutId ==
    (last.op = "get_orders") =>
        \A i \in 1..Len(last.ret) :
            /\ last.ret[i].id # ""
            /\ Len(last.ret[i].items)
                   = Cardinality(Eligible(prev, last.status) \cap RowsOf(prev, last.ret[i].id))

(***************************************************************************)
(* C20.  Create-then-read round trip: after a failure-free submission by   *)
(* the manager or the admin answered with the redirect, under an           *)
(* identifier not in the sheet before, the order is listed by /orders/all  *)
(* and by /orders/placed, with status "placed" and with the items parsed   *)
(* from the form, as many and in the same order.                           *)
(***************************************************************************)
\* The identifier new_order stores the last form under.
SubmittedId ==
    IF Falsy(FormGet(last.form, "order_id")) THEN TimeId(now) ELSE FormGet(last.form, "order_id")

\* The item fields a listing shows.
ListedFields == {"sku", "quantity", "order_sum", "purchase_sum", "supplier"}

\* The listing holds exactly one record of the submitted order, status "placed",
\* whose items are the parsed ones in order.
ListsSubmitted(listing) ==
    LET ret == orders(sheet, last.uid, listing).ret
        at == { i \in 1..Len(ret) : ret[i].id = SubmittedId }
    IN  /\ Cardinality(at) = 1
        /\ \A i \in at :
              /\ ret[i].status = PLACED
              /\ Len(ret[i].items) = Len(last.items)
              /\ \A k \in 1..Len(last.items) : \A f \in ListedFields :
                    ret[i].items[k][f] = Shown(last.items[k][f])

\* C20 as claimed: every accepted submission under a new identifier.
C20_RoundTripAnyForm ==
    (last.op = "new_order" /\ last.resp.code = 302 /\ RowsOf(prev, SubmittedId) = {}) =>
        (ListsSubmitted("all") /\ ListsSubmitted(PLACED))

\* C20 amended: the form yields at least one item.
C20_RoundTripWithItems ==
    (last.op = "new_order" /\ last.resp.code = 302 /\ RowsOf(prev, SubmittedId) = {}
        /\ Len(last.items) >= 1) =>
        (ListsSubmitted("all") /\ ListsSubmitted(PLACED))

\* The manager submits two items under a new identifier into a sheet that holds
\* another order; both listings show them.
C20_Witness ==
    /\ last.op = "new_order"
    /\ last.resp.code = 302
    /\ RoleOf(last.uid) = "manager"
    /\ Len(prev) >= 1
    /\ RowsOf(prev, SubmittedId) = {}
    /\ Len(last.items) = 2
    /\ last.items[1].sku # last.items[2].sku
    /\ last.items[1].supplier # Shown(last.items[2].supplier)
    /\ ListsSubmitted("all")
    /\ ListsSubmitted(PLACED)

(***************************************************************************)
(* C15.  When a store read or write fails at any point of append_order or  *)
(* update_status (also on the k-th of the N per-row writes), the operation *)
(* returns and has had no effect: the sheet is exactly as before.          *)
(***************************************************************************)
C15_FailureNoEffect ==
    (last.failed_call > 0) => sheet = prev

\* The part that does hold: a failed read, and any failure of append_order.
C15_FailedReadOrAppendNoEffect ==
    (last.failed_call = 1 \/ (last.failed_call > 0 /\ last.op = "append_order")) => sheet = prev

(***************************************************************************)
(* C16.  Under any interleaving of failure-free status changes requested   *)
(* by the picker and the courier only, every change of the stored status   *)
(* of an order is exactly one step of the chain placed -> awaiting supply  *)
(* -> assembly -> delivery -> completed: the status never skips a step and *)
(* never moves backward.                                                   *)
(***************************************************************************)
\* The steps of the chain, as (current, next) pairs.
ChainSteps == { <<t[2], t[3]>> : t \in LegalTriples }

\* The status of order oid changed by the last store call, and not by one chain step.
OffChain(oid) ==
    /\ RowsOf(prev, oid) # {}
    /\ RowsOf(sheet, oid) # {}
    /\ FirstStatus(sheet, oid) # FirstStatus(prev, oid)
    /\ <<FirstStatus(prev, oid), FirstStatus(sheet, oid)>> \notin ChainSteps

C16_OneChainStep ==
    \A oid \in OrderIds : ~OffChain(oid)

(***************************************************************************)
(* C17.  Once two concurrent update_status calls for the same order, of    *)
(* two rows or more, with different targets have both completed, all rows  *)
(* of the order carry the same status.                                     *)
(***************************************************************************)
\* Worker w has completed an update_status of order oid.
Updated(w, oid) ==
    /\ procs[w].pc = "done"
    /\ procs[w].op = "set_status"
    /\ procs[w].order_id = oid
    /\ procs[w].resp.code = 302

C17_ConcurrentUpdatesAgree ==
    \A oid \in OrderIds : \A v, w \in Workers :
        (/\ Updated(v, oid)
         /\ Updated(w, oid)
         /\ procs[v].new_status # procs[w].new_status
         /\ Cardinality(RowsOf(sheet, oid)) >= 2) =>
            \A q, r \in RowsOf(sheet, oid) : sheet[q][ColStatus] = sheet[r][ColStatus]

(***************************************************************************)
(* C18.  Orders are never deleted: under any interleaving of submissions   *)
(* and status updates, the rows once written stay in the sheet with the    *)
(* same identifier and the same cells other than the status.               *)
(***************************************************************************)
C18_RowsKept ==
    \A r \in 1..Len(prev) :
        /\ r <= Len(sheet)
        /\ \A c \in (1..NCols) \ {ColStatus} : sheet[r][c] = prev[r][c]

====
